---- MODULE Spec2Model ----
(***************************************************************************)
(* A model of photo_automation.py: the import of photos and videos from an *)
(* SD card to an SSD folder, followed by the Lightroom launch, the zip     *)
(* archive, the WeTransfer upload and the optional deletion of the card's  *)
(* files.                                                                  *)
(*                                                                         *)
(* A string is a sequence of one-character strings, a path is a sequence   *)
(* of path segments (strings), the file system is a function from the      *)
(* paths of its regular files to their contents.                           *)
(***************************************************************************)
EXTENDS Integers, Sequences, FiniteSets, TLC

VARIABLES
    pc,          \* the position of main(), or of the driver of a pure function
    cards,       \* detect_sd_cards(): the mount points found, in glob order
    tree,        \* the relative paths of the files on a card when the run starts
    unreadable,  \* the files of tree whose copy raises (permission denied)
    walkOrder,   \* the order in which os.walk yields the files of the card
    fs,          \* the regular files of the file system: path -> content
    dirs,        \* the directories outside the cards
    api_key,     \* args.api_key is non-empty
    sd_card,     \* main: sd_card
    meta,        \* main: (event, location, date_str, mode)
    dest_root,   \* main: dest_root
    copied,      \* the (src_path, dest_path) pairs copy_media printed as copied
    out,         \* the kinds of message printed so far
    ans,         \* confirm_delete: the raw answer typed at the prompt
    fname,       \* the file name handed to the classification
    category,    \* the classification of fname
    runs,        \* how many times copy_media has run
    firstFs      \* the file system after the first run of copy_media

vars == <<pc, cards, tree, unreadable, walkOrder, fs, dirs, api_key, sd_card,
          meta, dest_root, copied, out, ans, fname, category, runs, firstFs>>

-----------------------------------------------------------------------------
(* Bounds of the model. *)

MaxCards == 2
MaxFiles == 3
MaxNameLen == 5

-----------------------------------------------------------------------------
(* Strings. *)

UpperCase == <<"A","B","C","D","E","F","G","H","I","J","K","L","M",
               "N","O","P","Q","R","S","T","U","V","W","X","Y","Z">>
LowerCase == <<"a","b","c","d","e","f","g","h","i","j","k","l","m",
               "n","o","p","q","r","s","t","u","v","w","x","y","z">>

\* str.lower() on one character
LowerChar(c) ==
    IF \E i \in 1..26 : UpperCase[i] = c
    THEN LowerCase[CHOOSE i \in 1..26 : UpperCase[i] = c]
    ELSE c

\* str.lower()
Lower(s) == [i \in 1..Len(s) |-> LowerChar(s[i])]

\* the characters str.strip() removes
IsSpace(c) == c \in {" ", "\t"}

\* str.strip()
Strip(s) ==
    IF \A i \in 1..Len(s) : IsSpace(s[i]) THEN <<>>
    ELSE LET a == CHOOSE i \in 1..Len(s) :
                      ~IsSpace(s[i]) /\ \A j \in 1..(i-1) : IsSpace(s[j])
             b == CHOOSE i \in 1..Len(s) :
                      ~IsSpace(s[i]) /\ \A j \in (i+1)..Len(s) : IsSpace(s[j])
         IN SubSeq(s, a, b)

\* str.replace(" ", "_")
ReplaceSpaces(s) == [i \in 1..Len(s) |-> IF s[i] = " " THEN "_" ELSE s[i]]

\* str.isdigit() for the digits the model uses
IsDigit(s) == Len(s) > 0 /\ \A i \in 1..Len(s) : s[i] \in {"0","1","2","3","4","5","6","7","8","9"}

DigitValue(c) ==
    CASE c = "0" -> 0 [] c = "1" -> 1 [] c = "2" -> 2 [] c = "3" -> 3 [] c = "4" -> 4
      [] c = "5" -> 5 [] c = "6" -> 6 [] c = "7" -> 7 [] c = "8" -> 8 [] c = "9" -> 9

RECURSIVE ParseInt(_)
\* int() of a string of digits
ParseInt(s) ==
    IF s = <<>> THEN 0
    ELSE 10 * ParseInt(SubSeq(s, 1, Len(s) - 1)) + DigitValue(s[Len(s)])

-----------------------------------------------------------------------------
(* The classification by extension. *)

PHOTO_EXTS == { <<".","j","p","g">>, <<".","j","p","e","g">>, <<".","p","n","g">>,
                <<".","t","i","f">>, <<".","t","i","f","f">>, <<".","r","a","w">>,
                <<".","d","n","g">> }
VIDEO_EXTS == { <<".","m","o","v">>, <<".","m","p","4">>, <<".","a","v","i">>,
                <<".","m","k","v">> }

\* pathlib's PurePath.suffix of a file name: from the last dot on, unless that
\* dot is the first or the last character of the name
Suffix(name) ==
    IF \E i \in 1..Len(name) : name[i] = "."
    THEN LET i == CHOOSE k \in 1..Len(name) :
                      name[k] = "." /\ \A j \in (k+1)..Len(name) : name[j] # "."
         IN IF 1 < i /\ i < Len(name) THEN SubSeq(name, i, Len(name)) ELSE <<>>
    ELSE <<>>

\* a plausible slip: the suffix is looked up as written
ExtOfCaseSensitive(name) == Suffix(name)

\* copy_media: ext
ExtOf(name) == Lower(Suffix(name))

IsPhoto(name) == ExtOf(name) \in PHOTO_EXTS
IsVideo(name) == ExtOf(name) \in VIDEO_EXTS

\* the category the pair (is_photo, is_video) stands for
Classify(name) == [is_photo |-> IsPhoto(name), is_video |-> IsVideo(name)]

-----------------------------------------------------------------------------
(* Paths and the file system. *)

sVolumes == <<"V","o","l","u","m","e","s">>
sPhotos == <<"P","h","o","t","o","s">>
sVideo == <<"V","i","d","e","o">>
sZip == <<".","z","i","p">>
sUntitled == <<"U","n","t","i","t","l","e","d">>
sUnknown == <<"U","n","k","n","o","w","n">>

\* the --ssd default, /Volumes/SSD CLIENT 2025
SsdRoot == <<sVolumes, <<"S","S","D"," ","C","L","I","E","N","T"," ","2","0","2","5">>>>

RECURSIVE SplitSlash(_, _)
\* the segments of a string between its path separators, empty ones dropped
SplitSlash(s, cur) ==
    LET done == IF cur = <<>> THEN <<>> ELSE <<cur>>
    IN IF s = <<>> THEN done
       ELSE IF Head(s) = "/" THEN done \o SplitSlash(Tail(s), <<>>)
       ELSE SplitSlash(Tail(s), Append(cur, Head(s)))

\* pathlib's  path / string : a string that starts with a separator is an
\* absolute path and replaces the left operand
JoinPath(p, s) ==
    IF s # <<>> /\ Head(s) = "/" THEN SplitSlash(s, <<>>) ELSE p \o SplitSlash(s, <<>>)

\* Path.relative_to: p without its prefix base
RelativeTo(p, base) == SubSeq(p, Len(base) + 1, Len(p))

IsUnder(p, base) == Len(p) > Len(base) /\ SubSeq(p, 1, Len(base)) = base

Parent(p) == SubSeq(p, 1, Len(p) - 1)

\* Path.mkdir(parents=True, exist_ok=True)
Mkdir(ds, p) == ds \cup { SubSeq(p, 1, k) : k \in 1..Len(p) }

\* a plausible slip: an existing destination is kept and the copy gets a new name
WriteFileRenaming(f, p, c) ==
    LET q == IF p \in DOMAIN f
             THEN Append(Parent(p), p[Len(p)] \o <<"_","1">>) ELSE p
    IN [x \in DOMAIN f \cup {q} |-> IF x = q THEN c ELSE f[x]]

\* shutil.copy2 on the destination side: the file at p is created or overwritten
WriteFile(f, p, c) == [x \in DOMAIN f \cup {p} |-> IF x = p THEN c ELSE f[x]]

\* the file system without the files the predicate picks
RemoveFiles(f, gone) == [x \in DOMAIN f \ gone |-> f[x]]

-----------------------------------------------------------------------------
(* build_dest_folder *)

\* the first four characters of the date typed, its year when it is a date
YearOf(date_str) == SubSeq(date_str, 1, IF Len(date_str) < 4 THEN Len(date_str) ELSE 4)

\* a variant of the script nests the shoot folder under the year of the date
build_dest_folder_year(ssd_root, date_str, event, location) ==
    JoinPath(ssd_root \o <<YearOf(date_str)>>,
             ReplaceSpaces(date_str \o <<"_">> \o event \o <<"_">> \o location))

build_dest_folder(ssd_root, date_str, event, location) ==
    LET folder_name == ReplaceSpaces(date_str \o <<"_">> \o event \o <<"_">> \o location)
    IN JoinPath(ssd_root, folder_name)

-----------------------------------------------------------------------------
(* copy_media *)

sP == <<"p">>
sV == <<"v">>
sB == <<"b">>

\* a plausible slip: the mode is ignored for videos
SelectedAnyVideo(is_photo, is_video, mode) ==
    (is_photo /\ mode \in {sP, sB}) \/ is_video

\* copy_media: the test that selects a file
Selected(is_photo, is_video, mode) ==
    LET include_photos == mode \in {sP, sB}
        include_videos == mode \in {sV, sB}
    IN (is_photo /\ include_photos) \/ (is_video /\ include_videos)

\* a plausible slip: the file name alone is kept under the category subfolder
DestPathFlat(dest, is_photo, rel) ==
    dest \o <<IF is_photo THEN sPhotos ELSE sVideo>> \o <<rel[Len(rel)]>>

\* copy_media: dest_path
DestPath(dest, is_photo, rel) ==
    LET subfolder == IF is_photo THEN sPhotos ELSE sVideo
    IN dest \o <<subfolder>> \o rel

\* One iteration of the inner loop on the file src_path; st holds the file
\* system, the directories, the pairs printed and whether shutil.copy2 raised.
CopyOne(st, src, dest, mode, src_path, bad) ==
    LET name == src_path[Len(src_path)]
        is_photo == IsPhoto(name)
        is_video == IsVideo(name)
    IN IF Selected(is_photo, is_video, mode)
       THEN LET rel == RelativeTo(src_path, src)
                dest_path == DestPath(dest, is_photo, rel)
                made == Mkdir(st.dirs, Parent(dest_path))
            IN IF src_path \in bad
               THEN [st EXCEPT !.dirs = made, !.raised = TRUE]
               ELSE [fs |-> WriteFile(st.fs, dest_path, st.fs[src_path]),
                     dirs |-> made,
                     copied |-> st.copied \cup {<<src_path, dest_path>>},
                     raised |-> FALSE]
       ELSE st

RECURSIVE copy_media(_, _, _, _, _, _)
\* The walk over the files of src in the order todo; an exception of
\* shutil.copy2 is not handled and ends the walk.
copy_media(todo, src, dest, mode, st, bad) ==
    IF todo = <<>> \/ st.raised THEN st
    ELSE copy_media(Tail(todo), src, dest, mode,
                    CopyOne(st, src, dest, mode, src \o Head(todo), bad), bad)

-----------------------------------------------------------------------------
(* The inputs of a run: the cards, their files, what is typed at the prompts. *)

Digits == <<"1","2","3","4","5","6","7","8","9">>

\* the mount point of the i-th card, /Volumes/SD<i>
Card(i) == <<sVolumes, <<"S","D",Digits[i]>>>>

\* the files a card may hold, by their path relative to the mount point
FileCatalog == <<
    <<<<"D","C","I","M">>, <<"1","0","0","A","B","C">>, <<"I","M","G","_","0","0","0","1",".","J","P","G">>>>,
    <<<<"D","C","I","M">>, <<"1","0","0","A","B","C">>, <<"M","O","V","_","0","0","0","2",".","M","P","4">>>>,
    <<<<"D","C","I","M">>, <<"1","0","1","A","B","C">>, <<"I","M","G","_","0","0","0","1",".","J","P","G">>>>,
    <<<<"D","C","I","M">>, <<"1","0","0","A","B","C">>, <<"n","o","t","e","s",".","t","x","t">>>>,
    <<<<"D","C","I","M">>, <<".","j","p","g">>>>,
    <<<<"c","l","i","p",".","m","o","v">>>> >>

Files == { FileCatalog[i] : i \in 1..Len(FileCatalog) }

\* the content of a file of the catalog (distinct files differ)
Content(f) == CHOOSE i \in 1..Len(FileCatalog) : FileCatalog[i] = f

\* the content of a zip archive
ArchiveContent == 0

\* os.walk is top-down: it yields the files of a directory together, before
\* those of its subdirectories, and finishes a subtree before the next one
IsWalkOrder(w, t) ==
    /\ Len(w) = Cardinality(t)
    /\ { w[i] : i \in 1..Len(w) } = t
    /\ \A i, j \in 1..Len(w) :
         (i < j /\ IsUnder(w[i], Parent(w[j])) /\ Parent(w[i]) # Parent(w[j])) =>
             \A k \in j..Len(w) : IsUnder(w[k], Parent(w[j]))
    /\ \A i, j, k \in 1..Len(w) :
         \A n \in 0..Len(w[i]) :
            (i < j /\ j < k /\ IsUnder(w[i], SubSeq(w[i], 1, n))
                   /\ IsUnder(w[k], SubSeq(w[i], 1, n))) =>
                IsUnder(w[j], SubSeq(w[i], 1, n))

WalkOrders(t) ==
    { w \in [1..Cardinality(t) -> t] : IsWalkOrder(w, t) }

sToday == <<"2","0","2","5","-","0","1","-","1","5">>

\* what may be typed at the four prompts of prompt_metadata
MetaInputs == {
    [event |-> <<"W","e","d","d","i","n","g">>, location |-> <<"C","h","i","c","a","g","o">>, date |-> <<"2","0","2","4","-","0","5","-","0","1">>, mode |-> <<>>],
    [event |-> <<"W","e","d","d","i","n","g">>, location |-> <<"C","h","i","c","a","g","o">>, date |-> <<"2","0","2","4","-","0","5","-","0","1">>, mode |-> <<"p">>],
    [event |-> <<" ","W","e","d","d","i","n","g"," ">>, location |-> <<"C","h","i","c","a","g","o">>, date |-> <<"2","0","2","4","-","0","5","-","0","1">>, mode |-> <<" ","V"," ">>],
    [event |-> <<"N","e","w"," ","Y","o","r","k">>, location |-> <<>>, date |-> <<>>, mode |-> <<"x">>],
    [event |-> <<"a","\t","b">>, location |-> <<"L">>, date |-> <<"/","t">>, mode |-> <<"B">>] }

\* what may be typed at the prompt of choose_sd_card
ChoiceInputs == { <<"1">>, <<"2">>, <<"3">>, <<" ","2">>, <<"0">>, <<"x">>, <<>> }

\* what may be typed at the prompt of confirm_delete
AnswerInputs == { <<>>, <<"y">>, <<"Y">>, <<" ","Y"," ">>, <<"n">>, <<"y","e","s">> }

\* the outcomes of  open -a "Adobe Lightroom Classic"
LaunchOutcomes == { "ok", "FileNotFoundError", "CalledProcessError" }

InitDirs == { <<sVolumes>>, SsdRoot }

NoPath == <<>>
NoMeta == [event |-> <<>>, location |-> <<>>, date_str |-> <<>>, mode |-> <<>>]
NoCategory == [is_photo |-> FALSE, is_video |-> FALSE]

\* the files of the cards cs, each holding the files t
CardFiles(cs, t) ==
    LET ps == { cs[i] \o f : i \in 1..Len(cs), f \in t }
    IN [p \in ps |-> Content(RelativeTo(p, cs[1]))]

\* the files now under the directory d
FilesUnder(f, d) == { p \in DOMAIN f : IsUnder(p, d) }

-----------------------------------------------------------------------------
(* main *)

\* how many files each card may hold when n cards are found: up to MaxFiles
\* on a single card
FilesPerCard(n) == IF n = 0 THEN 0 ELSE IF n = 1 THEN MaxFiles ELSE 1

Init ==
    /\ pc = "choose_sd_card"
    /\ \E n \in 0..MaxCards : cards = [i \in 1..n |-> Card(i)]
    /\ tree \in { t \in SUBSET Files : Cardinality(t) <= FilesPerCard(Len(cards)) }
    /\ unreadable \in { u \in SUBSET tree : Cardinality(u) <= 1 }
    /\ walkOrder \in WalkOrders(tree)
    /\ fs = CardFiles(cards, tree)
    /\ dirs = InitDirs
    /\ api_key \in BOOLEAN
    /\ sd_card = NoPath
    /\ meta = NoMeta
    /\ dest_root = NoPath
    /\ copied = {}
    /\ out = {}
    /\ ans = <<>>
    /\ fname = <<>>
    /\ category = NoCategory
    /\ runs = 0
    /\ firstFs = <<>>

\* a plausible slip: without a card the run goes on with /Volumes itself
ChooseSdCardNoExit ==
    /\ pc = "choose_sd_card"
    /\ IF cards = <<>>
       THEN /\ out' = out \cup {"No SD card with DCIM folder found"}
            /\ sd_card' = <<sVolumes>>
            /\ pc' = "prompt_metadata"
       ELSE \E typed \in ChoiceInputs :
              LET choice == IF Len(cards) = 1 THEN <<"1">> ELSE Strip(typed)
              IN IF IsDigit(choice) /\ 1 <= ParseInt(choice) /\ ParseInt(choice) <= Len(cards)
                 THEN /\ sd_card' = cards[ParseInt(choice)]
                      /\ out' = out \cup {"Using SD card"}
                      /\ pc' = "prompt_metadata"
                 ELSE UNCHANGED <<sd_card, out, pc>>
    /\ UNCHANGED <<cards, tree, unreadable, walkOrder, fs, dirs, api_key, meta,
                   dest_root, copied, ans, fname, category, runs, firstFs>>

\* choose_sd_card(detect_sd_cards()): no card ends the run with sys.exit(1), a
\* single card is taken, several are offered until a number in range is typed
ChooseSdCard ==
    /\ pc = "choose_sd_card"
    /\ IF cards = <<>>
       THEN /\ out' = out \cup {"No SD card with DCIM folder found"}
            /\ pc' = "exit1"
            /\ UNCHANGED sd_card
       ELSE IF Len(cards) = 1
       THEN /\ sd_card' = cards[1]
            /\ out' = out \cup {"Using SD card"}
            /\ pc' = "prompt_metadata"
       ELSE \E typed \in ChoiceInputs :
              LET choice == Strip(typed)
              IN IF IsDigit(choice) /\ 1 <= ParseInt(choice) /\ ParseInt(choice) <= Len(cards)
                 THEN /\ sd_card' = cards[ParseInt(choice)]
                      /\ out' = out \cup {"Using SD card"}
                      /\ pc' = "prompt_metadata"
                 ELSE UNCHANGED <<sd_card, out, pc>>
    /\ UNCHANGED <<cards, tree, unreadable, walkOrder, fs, dirs, api_key, meta,
                   dest_root, copied, ans, fname, category, runs, firstFs>>

\* str.strip() or a default
OrDefault(typed, default) == IF Strip(typed) = <<>> THEN default ELSE Strip(typed)

\* the mode prompt_metadata returns for what was typed
ModeOf(typed) ==
    LET mode == IF Lower(Strip(typed)) = <<>> THEN sB ELSE Lower(Strip(typed))
    IN IF mode \notin {sP, sV, sB} THEN sB ELSE mode

PromptMetadata ==
    /\ pc = "prompt_metadata"
    /\ \E typed \in MetaInputs :
         meta' = [event |-> OrDefault(typed.event, sUntitled),
                  location |-> OrDefault(typed.location, sUnknown),
                  date_str |-> OrDefault(typed.date, sToday),
                  mode |-> ModeOf(typed.mode)]
    /\ pc' = "build_dest_folder"
    /\ UNCHANGED <<cards, tree, unreadable, walkOrder, fs, dirs, api_key, sd_card,
                   dest_root, copied, out, ans, fname, category, runs, firstFs>>

\* main: dest_root and its two subfolders
BuildDestFolder ==
    /\ pc = "build_dest_folder"
    /\ dest_root' = build_dest_folder(SsdRoot, meta.date_str, meta.event, meta.location)
    /\ dirs' = Mkdir(Mkdir(dirs, dest_root' \o <<sPhotos>>), dest_root' \o <<sVideo>>)
    /\ pc' = "copy_media"
    /\ UNCHANGED <<cards, tree, unreadable, walkOrder, fs, api_key, sd_card, meta,
                   copied, out, ans, fname, category, runs, firstFs>>

\* the result of copy_media on the current state
CopyResult ==
    copy_media(walkOrder, sd_card, dest_root, meta.mode,
               [fs |-> fs, dirs |-> dirs, copied |-> {}, raised |-> FALSE],
               { sd_card \o f : f \in unreadable })

\* main: copy_media(sd_card, dest_root, mode); an exception ends the run
CopyMedia ==
    /\ pc = "copy_media"
    /\ runs = 0
    /\ fs' = CopyResult.fs
    /\ dirs' = CopyResult.dirs
    /\ copied' = CopyResult.copied
    /\ runs' = 1
    /\ IF CopyResult.raised
       THEN /\ pc' = "crashed"
            /\ out' = out \cup {"Copying media files...", "Traceback: copy_media"}
       ELSE /\ pc' = "import_to_lightroom"
            /\ out' = out \cup {"Copying media files..."}
    /\ UNCHANGED <<cards, tree, unreadable, walkOrder, api_key, sd_card, meta,
                   dest_root, ans, fname, category, firstFs>>

\* main: import_to_lightroom in its try block; FileNotFoundError is handled
\* in the function, any other exception in main
ImportToLightroom ==
    /\ pc = "import_to_lightroom"
    /\ \E outcome \in LaunchOutcomes :
         out' = out \cup (CASE outcome = "ok" -> {}
                            [] outcome = "FileNotFoundError" -> {"Lightroom command not found"}
                            [] outcome = "CalledProcessError" -> {"Failed to open Lightroom"})
    /\ pc' = "create_zip"
    /\ UNCHANGED <<cards, tree, unreadable, walkOrder, fs, dirs, api_key, sd_card,
                   meta, dest_root, copied, ans, fname, category, runs, firstFs>>

\* shutil.make_archive(str(folder), "zip", ...): the archive's path
ArchivePath(folder) == Append(Parent(folder), folder[Len(folder)] \o sZip)

\* main: zip_path = create_zip(dest_root), outside any try block
CreateZip ==
    /\ pc = "create_zip"
    /\ \E ok \in BOOLEAN :
         IF ok
         THEN /\ fs' = WriteFile(fs, ArchivePath(dest_root), ArchiveContent)
              /\ out' = out \cup {"Created archive"}
              /\ pc' = "upload"
         ELSE /\ out' = out \cup {"Traceback: create_zip"}
              /\ pc' = "crashed"
              /\ UNCHANGED fs
    /\ UNCHANGED <<cards, tree, unreadable, walkOrder, dirs, api_key, sd_card, meta,
                   dest_root, copied, ans, fname, category, runs, firstFs>>

\* main: the upload when an API key was given; upload_to_wetransfer handles
\* every exception itself
Upload ==
    /\ pc = "upload"
    /\ IF api_key
       THEN \E ok \in BOOLEAN :
              out' = out \cup {"Uploading", IF ok THEN "Upload completed." ELSE "Failed to upload"}
       ELSE out' = out \cup {"Skipping upload"}
    /\ pc' = "confirm_delete"
    /\ UNCHANGED <<cards, tree, unreadable, walkOrder, fs, dirs, api_key, sd_card,
                   meta, dest_root, copied, ans, fname, category, runs, firstFs>>

\* a plausible slip: any answer that starts with y deletes
IsYesPrefix(typed) == Lower(Strip(typed)) # <<>> /\ Head(Lower(Strip(typed))) = "y"

\* confirm_delete: the test on the answer
IsYes(typed) == Lower(Strip(typed)) = <<"y">>

\* main: confirm_delete(sd_card), then "Done."
ConfirmDelete ==
    /\ pc = "confirm_delete"
    /\ \E typed \in AnswerInputs :
         /\ ans' = typed
         /\ IF IsYes(typed)
            THEN /\ fs' = RemoveFiles(fs, FilesUnder(fs, sd_card))
                 /\ out' = out \cup {"Removing files from SD card...", "Files deleted.", "Done."}
            ELSE /\ fs' = fs
                 /\ out' = out \cup {"Done."}
    /\ pc' = "done"
    /\ UNCHANGED <<cards, tree, unreadable, walkOrder, dirs, api_key, sd_card, meta,
                   dest_root, copied, fname, category, runs, firstFs>>

Next ==
    \/ ChooseSdCard
    \/ PromptMetadata
    \/ BuildDestFolder
    \/ CopyMedia
    \/ ImportToLightroom
    \/ CreateZip
    \/ Upload
    \/ ConfirmDelete

Spec == Init /\ [][Next]_vars

-----------------------------------------------------------------------------
(* The classification alone, on every file name up to a length. *)

NameAlphabet == { ".", "p", "n", "g", "m", "4", "P", "M" }

Names == UNION { [1..n -> NameAlphabet] : n \in 1..MaxNameLen }

InitClassify ==
    /\ pc = "classify"
    /\ fname \in Names
    /\ category = NoCategory
    /\ cards = <<>>
    /\ tree = {}
    /\ unreadable = {}
    /\ walkOrder = <<>>
    /\ fs = <<>>
    /\ dirs = InitDirs
    /\ api_key = FALSE
    /\ sd_card = NoPath
    /\ meta = NoMeta
    /\ dest_root = NoPath
    /\ copied = {}
    /\ out = {}
    /\ ans = <<>>
    /\ runs = 0
    /\ firstFs = <<>>

\* copy_media: ext, is_photo and is_video of one file name
ClassifyFile ==
    /\ pc = "classify"
    /\ category' = Classify(fname)
    /\ pc' = "classified"
    /\ UNCHANGED <<cards, tree, unreadable, walkOrder, fs, dirs, api_key, sd_card,
                   meta, dest_root, copied, out, ans, fname, runs, firstFs>>

NextClassify == ClassifyFile

SpecClassify == InitClassify /\ [][NextClassify]_vars

-----------------------------------------------------------------------------
(* copy_media run twice on the same card, mode and destination. *)

ExampleDest == build_dest_folder(SsdRoot, <<"2","0","2","4","-","0","5","-","0","1">>, <<"W","e","d","d","i","n","g">>, <<"C","h","i","c","a","g","o">>)

\* a file left in the destination by an earlier import
StaleContent == Len(FileCatalog) + 1

InitIdem ==
    /\ pc = "copy_media"
    /\ cards = <<Card(1)>>
    /\ sd_card = Card(1)
    /\ tree \in { t \in SUBSET Files : Cardinality(t) <= MaxFiles }
    /\ unreadable \in { u \in SUBSET tree : Cardinality(u) <= 1 }
    /\ walkOrder \in WalkOrders(tree)
    /\ \E mode \in {sP, sV, sB} :
         meta = [event |-> <<"W","e","d","d","i","n","g">>, location |-> <<"C","h","i","c","a","g","o">>,
                 date_str |-> <<"2","0","2","4","-","0","5","-","0","1">>, mode |-> mode]
    /\ dest_root = ExampleDest
    /\ dirs = Mkdir(Mkdir(InitDirs, ExampleDest \o <<sPhotos>>), ExampleDest \o <<sVideo>>)
    /\ \E stale \in SUBSET { ExampleDest \o <<sPhotos>> \o FileCatalog[1],
                             ExampleDest \o <<sVideo>> \o FileCatalog[2] } :
         fs = [p \in DOMAIN CardFiles(cards, tree) \cup stale |->
                 IF p \in stale THEN StaleContent ELSE CardFiles(cards, tree)[p]]
    /\ api_key = FALSE
    /\ copied = {}
    /\ out = {}
    /\ ans = <<>>
    /\ fname = <<>>
    /\ category = NoCategory
    /\ runs = 0
    /\ firstFs = <<>>

\* copy_media called again, whether the first call returned or raised
CopyMediaAgain ==
    /\ pc \in {"import_to_lightroom", "crashed"}
    /\ runs = 1
    /\ firstFs' = fs
    /\ fs' = CopyResult.fs
    /\ dirs' = CopyResult.dirs
    /\ copied' = CopyResult.copied
    /\ runs' = 2
    /\ pc' = IF CopyResult.raised THEN "crashed_again" ELSE "copied_again"
    /\ UNCHANGED <<cards, tree, unreadable, walkOrder, api_key, sd_card, meta,
                   dest_root, out, ans, fname, category>>

NextIdem ==
    \/ CopyMedia
    \/ CopyMediaAgain

SpecIdem == InitIdem /\ [][NextIdem]_vars

-----------------------------------------------------------------------------
(* What the claims speak of. *)

FileName(p) == p[Len(p)]

\* the copy phase of main is over
CopyPhaseOver == runs >= 1

\* the category of a file name: "Photo", "Video" or "Unclassified"
CategoryOf(name) ==
    IF IsPhoto(name) THEN "Photo" ELSE IF IsVideo(name) THEN "Video" ELSE "Unclassified"

\* the mode selects the category
ModeSelects(mode, cat) ==
    \/ cat = "Photo" /\ mode \in {sP, sB}
    \/ cat = "Video" /\ mode \in {sV, sB}

CategorySubfolder(cat) == IF cat = "Photo" THEN sPhotos ELSE sVideo

\* the source file f (relative to the card) was copied
WasCopied(f) == \E r \in copied : r[1] = sd_card \o f

\* the files of all the cards, with their contents
SourceFiles(f) ==
    LET ps == { p \in DOMAIN f : \E i \in 1..Len(cards) : IsUnder(p, cards[i]) }
    IN [p \in ps |-> f[p]]

\* the answer is a single y or Y with blanks around it
Affirmative(a) ==
    \E i \in 1..Len(a) : a[i] \in {"y", "Y"} /\ \A j \in 1..Len(a) : j # i => IsSpace(a[j])

LaunchFailed == "Lightroom command not found" \in out \/ "Failed to open Lightroom" \in out
ArchiveFailed == "Traceback: create_zip" \in out
UploadFailed == "Failed to upload" \in out

-----------------------------------------------------------------------------
(* The claims. *)

\* C1: once copy_media has ended, every selected file of the card other than
\* the one whose copy failed has been copied: a failed copy does not abort the walk.
C1_PartialFailureIsolation ==
    CopyPhaseOver =>
        \A f \in tree \ unreadable :
            ModeSelects(meta.mode, CategoryOf(FileName(f))) => WasCopied(f)

\* C2: files of the card are deleted only if the copy phase copied at least
\* one file.
C2_DeleteOnlyAfterSuccessfulCopy ==
    (sd_card # NoPath /\ \E f \in tree : sd_card \o f \notin DOMAIN fs) => copied # {}

\* C3: after a failed Lightroom launch, a failed archive creation or a failed
\* upload the run has not been aborted: it goes on to the later steps.
C3_CollaboratorFailureIsolation ==
    (LaunchFailed \/ ArchiveFailed \/ UploadFailed) => pc # "crashed"

\* C4: with no card found the run ends with the fatal message and has created
\* no directory, copied, archived, uploaded or deleted nothing.
C4_NoVolumeHalts ==
    (cards = <<>> /\ pc # "choose_sd_card") =>
        /\ pc = "exit1"
        /\ out = {"No SD card with DCIM folder found"}
        /\ dirs = InitDirs
        /\ fs = CardFiles(cards, tree)
        /\ copied = {}
        /\ dest_root = NoPath

C4_Witness == cards = <<>> /\ pc = "exit1"

\* C5: the files of the cards change only in the last step and only when the
\* answer is y or Y with blanks around it; the last step ends the run with
\* "Done." whatever the answer.
C5_DeletionRequiresConfirmation ==
    [][ /\ (SourceFiles(fs') # SourceFiles(fs)) =>
               (pc = "confirm_delete" /\ Affirmative(ans'))
        /\ (pc = "confirm_delete" /\ pc' # pc) =>
               (pc' = "done" /\ "Done." \in out'
                  /\ (~Affirmative(ans') => SourceFiles(fs') = SourceFiles(fs)))
      ]_vars

C5_Witness ==
    /\ pc = "done"
    /\ Affirmative(ans) /\ Len(ans) > 1
    /\ tree # {}
    /\ FilesUnder(fs, sd_card) = {}

\* C6: from a destination without media, only files of a category the mode
\* selects are copied and, when copy_media returns, all of them are; p leaves
\* no video extension under the destination, v no photo extension, and no
\* unclassified file is copied.
C6_ModeFiltering ==
    CopyPhaseOver =>
        LET under == FilesUnder(fs, dest_root)
            exts == { Lower(Suffix(FileName(p))) : p \in under }
        IN /\ \A f \in tree :
                WasCopied(f) => ModeSelects(meta.mode, CategoryOf(FileName(f)))
           /\ "Traceback: copy_media" \notin out =>
                \A f \in tree :
                   ModeSelects(meta.mode, CategoryOf(FileName(f))) =>
                       /\ WasCopied(f)
                       /\ \E p \in under : fs[p] = Content(f)
           /\ meta.mode = sP => exts \cap VIDEO_EXTS = {}
           /\ meta.mode = sV => exts \cap PHOTO_EXTS = {}
           /\ exts \subseteq PHOTO_EXTS \cup VIDEO_EXTS

C6_Witness ==
    /\ pc = "import_to_lightroom"
    /\ meta.mode = sP
    /\ \E f, g, h \in tree :
         /\ CategoryOf(FileName(f)) = "Photo" /\ WasCopied(f)
         /\ CategoryOf(FileName(g)) = "Video" /\ ~WasCopied(g)
         /\ CategoryOf(FileName(h)) = "Unclassified" /\ ~WasCopied(h)

\* C7: a second run of copy_media on the same card, mode and destination
\* leaves the file system as the first run left it, every copy equal to its
\* source.
C7_Idempotent ==
    runs = 2 =>
        /\ fs = firstFs
        /\ \A r \in copied : fs[r[2]] = fs[r[1]]

C7_Witness ==
    /\ runs = 2
    /\ Cardinality(copied) >= 2
    /\ \E p \in DOMAIN fs : IsUnder(p, dest_root) /\ fs[p] = StaleContent
    /\ \E r \in copied : r[2] = ExampleDest \o <<sPhotos>> \o FileCatalog[1]

HasSlash(s) == \E i \in 1..Len(s) : s[i] = "/"

\* every blank of the string, space or tab, replaced by an underscore
ReplaceWhitespace(s) == [i \in 1..Len(s) |-> IF IsSpace(s[i]) THEN "_" ELSE s[i]]

C9_DestinationPath ==
    /\ \A r \in copied :
         r[2] = dest_root \o <<CategorySubfolder(CategoryOf(FileName(r[1])))>>
                    \o SubSeq(r[1], Len(sd_card) + 1, Len(r[1]))
    /\ \A r, q \in copied : r[1] # q[1] => r[2] # q[2]
    /\ (runs = 1 /\ pc \in {"import_to_lightroom", "crashed"}) =>
         /\ Cardinality(DOMAIN fs \ DOMAIN CardFiles(cards, tree)) = Cardinality(copied)
         /\ \A p \in DOMAIN fs \ DOMAIN CardFiles(cards, tree) :
              IsUnder(p, dest_root \o <<sPhotos>>) \/ IsUnder(p, dest_root \o <<sVideo>>)

C9_Witness ==
    /\ pc = "import_to_lightroom"
    /\ WasCopied(FileCatalog[1]) /\ WasCopied(FileCatalog[3]) /\ WasCopied(FileCatalog[2])

\* the name with the letters after its last dot in lower case
WithLowerExtension(name) ==
    [i \in 1..Len(name) |->
        IF \E k \in 1..(i-1) : name[k] = "." /\ \A j \in (k+1)..Len(name) : name[j] # "."
        THEN LowerChar(name[i]) ELSE name[i]]

\* C10: the classification of every name is that of the name with its
\* extension in lower case, a name without a dot is unclassified, and no name
\* is both a photo and a video.
C10_ClassificationTotal ==
    pc = "classified" =>
        /\ category \in [is_photo : BOOLEAN, is_video : BOOLEAN]
        /\ ~(category.is_photo /\ category.is_video)
        /\ category = Classify(WithLowerExtension(fname))
        /\ (\A i \in 1..Len(fname) : fname[i] # ".") => category = NoCategory
        /\ PHOTO_EXTS \cap VIDEO_EXTS = {}

C10_Witness ==
    /\ pc = "classified"
    /\ category.is_photo
    /\ fname # Lower(fname)

====
